---- MODULE Spec2Model ----
(***************************************************************************)
(* Model of securedrop/encryption.py: EncryptionManager, the key-lifecycle *)
(* layer in front of GnuPG (python-gnupg handle self._gpg) with a Redis    *)
(* cache (self._redis).  Strings are sequences of one-character strings so *)
(* that substring tests, regex matches and space removal are computed.     *)
(***************************************************************************)
EXTENDS Integers, Sequences, FiniteSets, TLC

VARIABLES gpg_keyring, gpg_agent, redis_fingerprints, redis_keys, mgr,
          next_key, last, threads, default_encryption_mgr, constructed

\* The threads of the process (where each is in the call it makes), the
\* module global _default_encryption_mgr and the number of managers
\* constructed for it.
thread_vars == <<threads, default_encryption_mgr, constructed>>

vars == <<gpg_keyring, gpg_agent, redis_fingerprints, redis_keys, mgr,
          next_key, last, threads, default_encryption_mgr, constructed>>

\* ---------------------------------------------------------------- bounds
\* Number of key pairs the engine generates in one behaviour.
MaxKeys == 2

\* Spaces added to a fingerprint handed to _encrypt.
MaxSpaces == 2

\* ------------------------------------------------------- strings, values
\* Python None and the empty string: both are falsy in `if value:`.
None == <<>>

Truthy(v) == v # None

\* s occurs in t as a contiguous substring (Python `s in t`).
IsSubstring(s, t) ==
    \E i \in 0..(Len(t) - Len(s)) :
        \A j \in 1..Len(s) : t[i + j] = s[j]

HasPrefix(t, p) ==
    /\ Len(p) <= Len(t)
    /\ \A j \in 1..Len(p) : t[j] = p[j]

\* The source identities (filesystem ids) the callers use.  "e" is a
\* substring of "be" and of the text "Source Key"; "be" occurs in no user
\* id but its own.
Identities == { <<"e">>, <<"b", "e">> }

\* Characters of the class [-A-Za-z0-9+/=_] that occur in the model.
UidEmailChars ==
    { "a", "b", "c", "d", "e", "f", "g", "h", "i", "j", "k", "l", "m",
      "n", "o", "p", "q", "r", "s", "t", "u", "v", "w", "x", "y", "z",
      "A", "B", "C", "D", "E", "F", "G", "H", "I", "J", "K", "L", "M",
      "N", "O", "P", "Q", "R", "S", "T", "U", "V", "W", "X", "Y", "Z",
      "0", "1", "2", "3", "4", "5", "6", "7", "8", "9",
      "-", "+", "/", "=", "_" }

SOURCE_KEY_NAME == <<"S", "o", "u", "r", "c", "e", " ", "K", "e", "y">>

AutogeneratedName ==
    <<"A", "u", "t", "o", "g", "e", "n", "e", "r", "a", "t", "e", "d",
      " ", "K", "e", "y">>

\* re.compile(r"(Source|Autogenerated) Key <[-A-Za-z0-9+/=_]+>").match(uid):
\* anchored at the start of uid, not at its end.
SOURCE_KEY_UID_RE(uid) ==
    \E name \in {SOURCE_KEY_NAME, AutogeneratedName} :
        LET pre == name \o <<" ", "<">>
        IN  /\ HasPrefix(uid, pre)
            /\ \E n \in 1..(Len(uid) - Len(pre) - 1) :
                  /\ \A j \in 1..n : uid[Len(pre) + j] \in UidEmailChars
                  /\ uid[Len(pre) + n + 1] = ">"

\* Mutant: only the first space is removed (replace(" ", "", 1)).
Sanitize_FirstSpaceOnly(fpr) ==
    IF \E i \in 1..Len(fpr) : fpr[i] = " "
    THEN LET first == CHOOSE i \in 1..Len(fpr) :
                    fpr[i] = " " /\ \A j \in 1..(i - 1) : fpr[j] # " "
         IN  SubSeq(fpr, 1, first - 1) \o SubSeq(fpr, first + 1, Len(fpr))
    ELSE fpr

\* fpr.replace(" ", "")
Sanitize(fpr) == SelectSeq(fpr, LAMBDA c : c # " ")

\* The texts made of s and one more space.
InsertSpace(s) ==
    { SubSeq(s, 1, i) \o <<" ">> \o SubSeq(s, i + 1, Len(s)) : i \in 0..Len(s) }

\* The forms of a fingerprint with at most n spaces added.
RECURSIVE SpacedForms(_, _)
SpacedForms(fpr, n) ==
    IF n = 0 THEN {fpr}
    ELSE LET fewer == SpacedForms(fpr, n - 1)
         IN  fewer \cup UNION { InsertSpace(s) : s \in fewer }

\* ------------------------------------------------------------ the engine
Digits == <<"1", "2", "3", "4", "5", "6", "7", "8", "9">>

\* Fingerprint of the n-th key pair the engine generates: never repeated.
NewFingerprint(n) == <<"F", Digits[n]>>

\* The configured journalist fingerprint (config.JOURNALIST_KEY).
JournalistFingerprint == <<"J", "K">>

\* The journalist key is imported, not generated: its user id is not of
\* the source-key form (it contains the letter "e").
\* Only its public key is in the keyring (secret |-> None).
JournalistKey ==
    [fingerprint |-> JournalistFingerprint,
     uids        |-> << <<"J", "o", "e", " ", "<", "j", ">">> >>,
     secret      |-> None]

\* source_user.gpg_secret: the passphrase of a source, one per identity.
Passphrase(filesystem_id) == <<"p", "w">> \o filesystem_id

\* The text sources submit and journalists reply with; "eacute" stands for
\* one non-ASCII character.
Plaintexts == { <<"h", "i", "eacute">> }

\* The UTF-8 bytes of one character.
Utf8Bytes(c) ==
    CASE c = "h" -> <<104>>
      [] c = "i" -> <<105>>
      [] c = "eacute" -> <<195, 169>>

\* The bytes GnuPG reads from a text stream (StringIO).
RECURSIVE Utf8Encode(_)
Utf8Encode(text) ==
    IF text = <<>> THEN <<>>
    ELSE Utf8Bytes(Head(text)) \o Utf8Encode(Tail(text))

\* bytes.decode("utf-8"): the text, or ok = FALSE (UnicodeDecodeError).
RECURSIVE Utf8Decode(_)
Utf8Decode(bytes) ==
    IF bytes = <<>> THEN [ok |-> TRUE, text |-> <<>>]
    ELSE LET one  == \E c \in {"h", "i"} : Utf8Bytes(c) = <<bytes[1]>>
             two  == Len(bytes) >= 2 /\ <<bytes[1], bytes[2]>> = Utf8Bytes("eacute")
             rest == Utf8Decode(SubSeq(bytes, IF one THEN 2 ELSE 3, Len(bytes)))
             c    == IF one
                     THEN CHOOSE x \in {"h", "i"} : Utf8Bytes(x) = <<bytes[1]>>
                     ELSE "eacute"
         IN  IF (one \/ two) /\ rest.ok
             THEN [ok |-> TRUE, text |-> <<c>> \o rest.text]
             ELSE [ok |-> FALSE, text |-> <<>>]

\* The content of the binary file sources submit (it is not UTF-8).
FileContents == { <<104, 255>> }

\* An OpenPGP message: who can decrypt it and what it holds.
Ciphertext(recipients, data) == [recipients |-> recipients, data |-> data]

NoCiphertext == Ciphertext(<<>>, <<>>)

\* Bytes that are no OpenPGP message.
CorruptCiphertext == Ciphertext(<<>>, <<0>>)

\* Diagnostic texts GnuPG writes to stderr.
StderrFailed == <<"g", "p", "g", ":", " ", "f", "a", "i", "l", "e", "d">>

StderrNoPublicKey == <<"N", "o", " ", "p", "u", "b", "l", "i", "c", " ", "k", "e", "y">>

StderrNoData == <<"n", "o", " ", "v", "a", "l", "i", "d", " ", "d", "a", "t", "a">>

StderrNoSecretKey == <<"N", "o", " ", "s", "e", "c", "r", "e", "t", " ", "k", "e", "y">>

\* Mutant: the user id is built from the last character of the identity.
gen_key_input_Truncated(filesystem_id) ==
    SOURCE_KEY_NAME \o <<" ", "<">>
        \o <<filesystem_id[Len(filesystem_id)]>> \o <<">">>

\* gen_key_input(name_real=SOURCE_KEY_NAME, name_email=filesystem_id):
\* GnuPG forms the user id "Source Key <filesystem_id>".
gen_key_input(filesystem_id) ==
    SOURCE_KEY_NAME \o <<" ", "<">> \o filesystem_id \o <<">">>

\* str(new_key) of a GenKey result without fingerprint: its status text.
KeyNotCreated ==
    <<"k", "e", "y", " ", "n", "o", "t", " ", "c", "r", "e", "a", "t",
      "e", "d">>

KeyringFingerprints(kr) == { kr[i].fingerprint : i \in 1..Len(kr) }

\* The recipients gpg writes into a message: a key named more than once
\* gets one packet, at the place where it is named last.
RECURSIVE RecipientPackets(_)
RecipientPackets(recipients) ==
    IF recipients = <<>> THEN <<>>
    ELSE IF \E j \in 2..Len(recipients) : recipients[j] = Head(recipients)
         THEN RecipientPackets(Tail(recipients))
    ELSE <<Head(recipients)>> \o RecipientPackets(Tail(recipients))

\* gpg.encrypt(plaintext, *recipients, always_trust=True, armor=False):
\* non-ok when GnuPG fails for a reason of its own (engine_ok = FALSE) or a
\* recipient is not in the keyring; the message otherwise.
gpg_encrypt(kr, recipients, plaintext, engine_ok) ==
    IF ~engine_ok
    THEN [ok |-> FALSE, stderr |-> StderrFailed, data |-> NoCiphertext]
    ELSE IF \E i \in 1..Len(recipients) :
                recipients[i] \notin KeyringFingerprints(kr)
    THEN [ok |-> FALSE, stderr |-> StderrNoPublicKey, data |-> NoCiphertext]
    ELSE [ok |-> TRUE, stderr |-> <<>>,
          data |-> Ciphertext(RecipientPackets(recipients), plaintext)]

\* gpg-agent, which gpg asks for every secret key: cache is what the agent
\* holds in memory, the passphrase it was given for a key, by fingerprint
\* (a function with a finite domain); last is the key of the entry the
\* agent used last, None when it has none.  Deleting a key from the
\* keyring leaves its entry in the agent.
NoAgent == [cache |-> [f \in {} |-> None], last |-> None]

\* The secret part of the key with this fingerprint: the passphrase that
\* unlocks it, None when the keyring holds no secret part for it.
SecretOf(kr, fpr) ==
    IF fpr \in KeyringFingerprints(kr)
    THEN LET i == CHOOSE i \in 1..Len(kr) : kr[i].fingerprint = fpr
         IN  kr[i].secret
    ELSE None

\* The recipients of a message, by position in the message, whose secret
\* key the keyring holds.
SecretKeysFor(kr, ciphertext) ==
    { j \in 1..Len(ciphertext.recipients) :
        SecretOf(kr, ciphertext.recipients[j]) # None }

\* gpg.decrypt_file(ciphertext, passphrase=...) on the handle made with
\* --pinentry-mode loopback.  gpg takes the recipients in the order of the
\* message and uses the first whose secret key gpg-agent unlocks.  The
\* agent unlocks a key with the passphrase it holds for it; failing that,
\* with the passphrase of the entry it used last; failing that, with the
\* passphrase of the call, which it then keeps for the key.  agent_on =
\* FALSE: the agent holds nothing and keeps nothing (its cache is off or
\* has expired: default-cache-ttl, which this component does not set).
gpg_decrypt_file(kr, agent, ciphertext, passphrase, engine_ok, agent_on) ==
    LET rec     == ciphertext.recipients
        mine    == SecretKeysFor(kr, ciphertext)
        held    == IF agent_on THEN agent ELSE NoAgent
        hit(j)  == rec[j] \in DOMAIN held.cache
        again(j) ==
            /\ held.last # None
            /\ held.cache[held.last] = SecretOf(kr, rec[j])
        entered(j) == SecretOf(kr, rec[j]) = passphrase
        usable  == { j \in mine : hit(j) \/ again(j) \/ entered(j) }
        used    == CHOOSE j \in usable : \A k \in usable : j <= k
        kept    ==
            IF hit(used) THEN [held EXCEPT !.last = rec[used]]
            ELSE IF again(used) \/ ~agent_on THEN held
            ELSE [cache |-> [f \in DOMAIN held.cache \cup {rec[used]} |->
                               IF f = rec[used] THEN passphrase
                               ELSE held.cache[f]],
                  last |-> rec[used]]
    IN  IF ~engine_ok
        THEN [ok |-> FALSE, stderr |-> StderrFailed, data |-> <<>>,
              agent |-> agent]
        ELSE IF rec = <<>>
        THEN [ok |-> FALSE, stderr |-> StderrNoData, data |-> <<>>,
              agent |-> agent]
        ELSE IF usable # {}
        THEN [ok |-> TRUE, stderr |-> <<>>, data |-> ciphertext.data,
              agent |-> kept]
        ELSE [ok |-> FALSE, stderr |-> StderrNoSecretKey, data |-> <<>>,
              agent |-> held]

\* gpg.export_keys(fingerprint): the exported public key of the key with
\* this fingerprint, the empty string when the keyring has none.
export_keys(kr, fpr) ==
    IF fpr \in KeyringFingerprints(kr) THEN <<"P", "U", "B">> \o fpr ELSE None

\* gpg.delete_keys(fpr, secret=True, subkeys=True) when GnuPG deletes.
RemoveKey(kr, fpr) == SelectSeq(kr, LAMBDA k : k.fingerprint # fpr)

\* One engine invocation, as recorded in the call log of an operation.
Call(fn, args) == [fn |-> fn, args |-> args]

\* ------------------------------------------------------------- the cache
\* Redis hashes are functions with a finite domain.
HGet(h, field) == IF field \in DOMAIN h THEN h[field] ELSE None

HSet(h, field, value) ==
    [f \in (DOMAIN h) \cup {field} |-> IF f = field THEN value ELSE h[f]]

HDel(h, field) == [f \in (DOMAIN h) \ {field} |-> h[f]]

EmptyHash == [f \in {} |-> None]

\* --------------------------------------------------- EncryptionManager
\* The stores an operation reads and writes: the GnuPG keyring, the two
\* Redis hashes, the count of generated keys and what gpg-agent holds.
Stores(kr, fps, keys, nk, agent) ==
    [keyring |-> kr, fingerprints |-> fps, keys |-> keys, next_key |-> nk,
     agent |-> agent]

\* What an operation leaves behind: how it ended (ok or the exception
\* raised), the value returned (the argument of the exception when it has
\* one), the engine calls made, the stores after, and the message written
\* to the output path (NoCiphertext: none).
Result(outcome, ret, calls, st) ==
    [outcome |-> outcome, ret |-> ret, calls |-> calls, st |-> st,
     out |-> NoCiphertext]

\* `source_filesystem_id in uid and SOURCE_KEY_UID_RE.match(uid)` for some
\* uid of the key.
KeyMatches(key, source_filesystem_id) ==
    \E u \in 1..Len(key.uids) :
        /\ IsSubstring(source_filesystem_id, key.uids[u])
        /\ SOURCE_KEY_UID_RE(key.uids[u])

\* _get_source_key_details: position of the first key of list_keys() that
\* matches, 0 when none does (GpgKeyNotFoundError).
get_source_key_details(kr, source_filesystem_id) ==
    LET hits == { i \in 1..Len(kr) : KeyMatches(kr[i], source_filesystem_id) }
    IN  IF hits = {} THEN 0
        ELSE CHOOSE i \in hits : \A j \in hits : i <= j

\* Mutant: the fingerprint is not written to Redis.
save_key_fingerprint_to_redis_Dropped(fps, source_filesystem_id, source_key_fingerprint) ==
    fps

\* _save_key_fingerprint_to_redis
save_key_fingerprint_to_redis(fps, source_filesystem_id, source_key_fingerprint) ==
    HSet(fps, source_filesystem_id, source_key_fingerprint)

\* Mutant: the fingerprint found by the scan is returned but not cached.
get_source_key_fingerprint_NoWriteThrough(st, source_filesystem_id, scan_ok) ==
    LET cached == HGet(st.fingerprints, source_filesystem_id)
        i      == get_source_key_details(st.keyring, source_filesystem_id)
        scan   == <<Call("list_keys", <<>>)>>
    IN  IF Truthy(cached) THEN Result("ok", cached, <<>>, st)
        ELSE IF ~scan_ok THEN Result("EngineFault", None, scan, st)
        ELSE IF i = 0 THEN Result("GpgKeyNotFoundError", None, scan, st)
        ELSE Result("ok", st.keyring[i].fingerprint, scan, st)

\* get_source_key_fingerprint.  scan_ok = FALSE: list_keys() itself raises
\* (the engine scan is broken).
get_source_key_fingerprint(st, source_filesystem_id, scan_ok) ==
    LET cached == HGet(st.fingerprints, source_filesystem_id)
        i      == get_source_key_details(st.keyring, source_filesystem_id)
        scan   == <<Call("list_keys", <<>>)>>
    IN  IF Truthy(cached) THEN Result("ok", cached, <<>>, st)
        ELSE IF ~scan_ok THEN Result("EngineFault", None, scan, st)
        ELSE IF i = 0 THEN Result("GpgKeyNotFoundError", None, scan, st)
        ELSE Result("ok", st.keyring[i].fingerprint, scan,
                    [st EXCEPT !.fingerprints =
                        save_key_fingerprint_to_redis(
                            st.fingerprints, source_filesystem_id,
                            st.keyring[i].fingerprint)])

\* Mutant: the exported public key is returned but not written to Redis.
get_public_key_NotStored(st, key_fingerprint) ==
    LET cached   == HGet(st.keys, key_fingerprint)
        exported == export_keys(st.keyring, key_fingerprint)
        export   == <<Call("export_keys", <<key_fingerprint>>)>>
    IN  IF Truthy(cached) THEN Result("ok", cached, <<>>, st)
        ELSE IF ~Truthy(exported)
             THEN Result("GpgKeyNotFoundError", None, export, st)
        ELSE Result("ok", exported, export, st)

\* _get_public_key
get_public_key(st, key_fingerprint) ==
    LET cached   == HGet(st.keys, key_fingerprint)
        exported == export_keys(st.keyring, key_fingerprint)
        export   == <<Call("export_keys", <<key_fingerprint>>)>>
    IN  IF Truthy(cached) THEN Result("ok", cached, <<>>, st)
        ELSE IF ~Truthy(exported)
             THEN Result("GpgKeyNotFoundError", None, export, st)
        ELSE Result("ok", exported, export,
                    [st EXCEPT !.keys = HSet(st.keys, key_fingerprint, exported)])

\* get_journalist_public_key
get_journalist_public_key(st) == get_public_key(st, JournalistFingerprint)

\* What a deletion out of band does to the stores: the key pair oob leaves
\* the keyring (None: nothing is deleted); Redis is not told.
out_of_band_delete(st, oob) ==
    IF oob = None THEN st
    ELSE [st EXCEPT !.keyring = RemoveKey(st.keyring, oob)]

\* get_source_public_key.  oob: the key pair deleted out of band while the
\* call runs, after its fingerprint lookup and before _get_public_key asks
\* the engine (None: none); the call holds no lock.
get_source_public_key(st, source_filesystem_id, scan_ok, oob) ==
    LET f == get_source_key_fingerprint(st, source_filesystem_id, scan_ok)
        k == get_public_key(out_of_band_delete(f.st, oob), f.ret)
    IN  IF f.outcome # "ok" THEN f
        ELSE Result(k.outcome, k.ret, f.calls \o k.calls, k.st)

\* __init__, lines 120-127: the journalist key check.
init(st) ==
    LET k == get_journalist_public_key(st)
    IN  IF k.outcome = "GpgKeyNotFoundError"
        THEN Result("EnvironmentError", None, k.calls, k.st)
        ELSE k

\* generate_source_key_pair.  gen is what gen_key() does: "ok" creates the
\* key pair; "status" creates none and returns a GenKey whose str() is its
\* status text; "raises" creates none and an exception leaves the method
\* before the cache write.  hset_ok = FALSE: the cache write raises (Redis
\* is unreachable), which leaves the method with what the engine did.
generate_source_key_pair(st, filesystem_id, gen, hset_ok) ==
    LET call    == <<Call("gen_key", <<filesystem_id>>)>>
        fpr     == NewFingerprint(st.next_key)
        new_key == [fingerprint |-> fpr,
                    uids |-> <<gen_key_input(filesystem_id)>>,
                    secret |-> Passphrase(filesystem_id)]
        created == [st EXCEPT !.keyring = Append(st.keyring, new_key),
                              !.next_key = st.next_key + 1]
    IN  CASE gen = "raises" -> Result("EngineFault", None, call, st)
          [] gen = "status" /\ ~hset_ok -> Result("RedisError", None, call, st)
          [] gen = "status" /\ hset_ok ->
                Result("ok", None, call,
                    [st EXCEPT !.fingerprints =
                        save_key_fingerprint_to_redis(
                            st.fingerprints, filesystem_id, KeyNotCreated)])
          [] gen = "ok" /\ ~hset_ok -> Result("RedisError", None, call, created)
          [] gen = "ok" /\ hset_ok ->
                Result("ok", None, call,
                    [created EXCEPT
                        !.fingerprints =
                            save_key_fingerprint_to_redis(
                                st.fingerprints, filesystem_id, fpr)])

\* delete_keys on the deletion handle.  del is what GnuPG does: "ok"
\* deletes the key pair if the keyring has it; "problem" deletes nothing
\* and records a DELETE_PROBLEM status in the result object; "raises"
\* deletes nothing and raises.  A fingerprint the keyring does not hold is
\* always a "problem".
delete_keys(kr, fpr, del) ==
    IF del = "ok" /\ fpr \in KeyringFingerprints(kr)
    THEN RemoveKey(kr, fpr)
    ELSE kr

\* delete_source_key_pair.  oob: the key pair deleted out of band while
\* the call runs, after its fingerprint lookup and before delete_keys
\* (None: none).
delete_source_key_pair(st, source_filesystem_id, scan_ok, del, oob) ==
    LET f    == get_source_key_fingerprint(st, source_filesystem_id, scan_ok)
        call == <<Call("delete_keys", <<f.ret>>)>>
        mid  == out_of_band_delete(f.st, oob)
    IN  IF f.outcome # "ok" THEN f
        ELSE IF del = "raises"
             THEN Result("EngineFault", None, f.calls \o call, mid)
        ELSE Result("ok", None, f.calls \o call,
                [mid EXCEPT
                    !.keyring = delete_keys(mid.keyring, f.ret, del),
                    !.keys = HDel(f.st.keys, f.ret),
                    !.fingerprints =
                        HDel(f.st.fingerprints, source_filesystem_id)])

\* _encrypt: plaintext_in is the bytes of the input stream.
encrypt(st, using_keys_with_fingerprints, plaintext_in, engine_ok) ==
    LET sanitized_key_fingerprints ==
            [i \in 1..Len(using_keys_with_fingerprints) |->
                Sanitize(using_keys_with_fingerprints[i])]
        call == <<Call("encrypt", sanitized_key_fingerprints)>>
        out  == gpg_encrypt(st.keyring, sanitized_key_fingerprints,
                            plaintext_in, engine_ok)
    IN  IF ~out.ok THEN Result("GpgEncryptError", out.stderr, call, st)
        ELSE [Result("ok", None, call, st) EXCEPT !.out = out.data]

\* encrypt_source_message
encrypt_source_message(st, message_in, engine_ok) ==
    encrypt(st, <<JournalistFingerprint>>, Utf8Encode(message_in), engine_ok)

\* encrypt_source_file
encrypt_source_file(st, file_in, engine_ok) ==
    encrypt(st, <<JournalistFingerprint>>, file_in, engine_ok)

\* encrypt_journalist_reply.  oob: the key pair deleted out of band while
\* the call runs, after its fingerprint lookup and before _encrypt (None:
\* none).
encrypt_journalist_reply(st, for_source_with_filesystem_id, reply_in, scan_ok, engine_ok, oob) ==
    LET f == get_source_key_fingerprint(st, for_source_with_filesystem_id, scan_ok)
        e == encrypt(out_of_band_delete(f.st, oob),
                     <<f.ret, JournalistFingerprint>>,
                     Utf8Encode(reply_in), engine_ok)
    IN  IF f.outcome # "ok" THEN f
        ELSE [e EXCEPT !.calls = f.calls \o e.calls]

\* Mutant: the decrypted bytes are returned whatever the engine reports.
decrypt_journalist_reply_Unchecked(st, for_source_user, ciphertext_in, engine_ok, agent_on) ==
    LET call == <<Call("decrypt_file", <<>>)>>
        out  == gpg_decrypt_file(st.keyring, st.agent, ciphertext_in,
                                 Passphrase(for_source_user), engine_ok,
                                 agent_on)
        text == Utf8Decode(out.data)
        st2  == [st EXCEPT !.agent = out.agent]
    IN  IF ~text.ok THEN Result("UnicodeDecodeError", None, call, st2)
        ELSE Result("ok", text.text, call, st2)

\* decrypt_journalist_reply
decrypt_journalist_reply(st, for_source_user, ciphertext_in, engine_ok, agent_on) ==
    LET call == <<Call("decrypt_file", <<>>)>>
        out  == gpg_decrypt_file(st.keyring, st.agent, ciphertext_in,
                                 Passphrase(for_source_user), engine_ok,
                                 agent_on)
        text == Utf8Decode(out.data)
        st2  == [st EXCEPT !.agent = out.agent]
    IN  IF ~out.ok THEN Result("GpgDecryptError", out.stderr, call, st2)
        ELSE IF ~text.ok THEN Result("UnicodeDecodeError", None, call, st2)
        ELSE Result("ok", text.text, call, st2)

\* --------------------------------------------------------- state machine
Now == Stores(gpg_keyring, redis_fingerprints, redis_keys, next_key, gpg_agent)

\* The record of the last call of this process: operation, identity
\* argument, whether the caller had broken the engine scan, how the call
\* ended, what it returned, the engine calls it made, the message it wrote
\* to its output path, the fingerprint list handed to _encrypt when it is
\* called on its own, the fingerprint of
\* the key pair the engine generated in it (None: none), and what the call
\* follows: "generation" when the call before it generated a key pair for
\* the same identity and returned, "same_call" when the call before it was the same
\* operation on the same identity and returned, "other" otherwise.
Last(op, id, scan_ok, r) ==
    [op |-> op, id |-> id, scan_broken |-> ~scan_ok,
     outcome |-> r.outcome, ret |-> r.ret, calls |-> r.calls,
     out |-> r.out, fprs |-> <<>>,
     generated |-> IF r.st.next_key > next_key
                   THEN NewFingerprint(next_key) ELSE None,
     follows |-> IF last.id = id /\ last.generated # None
                    /\ last.outcome = "ok"
                 THEN "generation"
                 ELSE IF last.op = op /\ last.id = id /\ last.outcome = "ok"
                      THEN "same_call"
                 ELSE "other"]

\* The state after an operation with result r.
Apply(op, id, scan_ok, r) ==
    /\ gpg_keyring' = r.st.keyring
    /\ redis_fingerprints' = r.st.fingerprints
    /\ redis_keys' = r.st.keys
    /\ next_key' = r.st.next_key
    /\ gpg_agent' = r.st.agent
    /\ last' = Last(op, id, scan_ok, r)
    /\ UNCHANGED thread_vars

\* A process that has made no call yet.
NoCall ==
    [op |-> "none", id |-> None, scan_broken |-> FALSE, outcome |-> "ok",
     ret |-> None, calls |-> <<>>, out |-> NoCiphertext, fprs |-> <<>>,
     generated |-> None, follows |-> "other"]

\* The threads of the process.
Threads == {"t1", "t2"}

\* A thread that is in no call: op is the call it made last, ret the
\* manager get_default returned to it (0: none yet).
Idle(op, ret) ==
    [pc |-> "idle", op |-> op, id |-> None, fpr |-> None, val |-> None,
     ret |-> ret]

GenOutcomes == {"ok", "status", "raises"}

DelOutcomes == {"ok", "problem", "raises"}

\* The keyring directory holds the journalist key or (misconfigured) not;
\* Redis is empty; no manager constructed yet.
Init ==
    /\ gpg_keyring \in { <<>>, <<JournalistKey>> }
    /\ gpg_agent = NoAgent
    /\ redis_fingerprints = EmptyHash
    /\ redis_keys = EmptyHash
    /\ mgr = "none"
    /\ next_key = 1
    /\ last = NoCall
    /\ threads = [t \in Threads |-> Idle("none", 0)]
    /\ default_encryption_mgr = 0
    /\ constructed = 0

\* EncryptionManager(...): the process constructs its manager.
Construct ==
    /\ mgr = "none"
    /\ LET r == init(Now)
       IN  /\ Apply("init", None, TRUE, r)
           /\ mgr' = IF r.outcome = "ok" THEN "ready" ELSE "failed"

\* The process ends and a new one starts: Redis and the keyring persist.
Restart ==
    /\ mgr # "none"
    /\ mgr' = "none"
    /\ last' = NoCall
    /\ UNCHANGED <<gpg_keyring, gpg_agent, redis_fingerprints, redis_keys,
                   next_key>>
    /\ UNCHANGED thread_vars

Generate(id) ==
    /\ mgr = "ready"
    /\ \E gen \in GenOutcomes :
          /\ gen = "ok" => next_key <= MaxKeys
          /\ Apply("generate_source_key_pair", id, TRUE,
                   generate_source_key_pair(Now, id, gen, TRUE))
    /\ UNCHANGED mgr

\* generate_source_key_pair while Redis is unreachable: the hset raises.
GenerateRedisDown(id) ==
    /\ mgr = "ready"
    /\ \E gen \in {"ok", "status"} :
          /\ gen = "ok" => next_key <= MaxKeys
          /\ Apply("generate_source_key_pair", id, TRUE,
                   generate_source_key_pair(Now, id, gen, FALSE))
    /\ UNCHANGED mgr

DeleteOf(id, oob) ==
    /\ mgr = "ready"
    /\ \E del \in DelOutcomes :
          Apply("delete_source_key_pair", id, TRUE,
                delete_source_key_pair(Now, id, TRUE, del, oob))
    /\ UNCHANGED mgr

Delete(id) == DeleteOf(id, None)

\* The caller may have broken the engine scan (fault injection).
GetSourceKeyFingerprintOf(id, scan_ok) ==
    /\ mgr = "ready"
    /\ Apply("get_source_key_fingerprint", id, scan_ok,
             get_source_key_fingerprint(Now, id, scan_ok))
    /\ UNCHANGED mgr

GetSourceKeyFingerprint(id) ==
    \E scan_ok \in BOOLEAN : GetSourceKeyFingerprintOf(id, scan_ok)

GetSourcePublicKeyOf(id, oob) ==
    /\ mgr = "ready"
    /\ Apply("get_source_public_key", id, TRUE,
             get_source_public_key(Now, id, TRUE, oob))
    /\ UNCHANGED mgr

GetSourcePublicKey(id) == GetSourcePublicKeyOf(id, None)

GetJournalistPublicKey ==
    /\ mgr = "ready"
    /\ Apply("get_journalist_public_key", None, TRUE,
             get_journalist_public_key(Now))
    /\ UNCHANGED mgr

EncryptSourceMessageOf(message_in, engine_ok) ==
    /\ mgr = "ready"
    /\ Apply("encrypt_source_message", None, TRUE,
             encrypt_source_message(Now, message_in, engine_ok))
    /\ UNCHANGED mgr

EncryptSourceMessage ==
    \E message_in \in Plaintexts, engine_ok \in BOOLEAN :
        EncryptSourceMessageOf(message_in, engine_ok)

EncryptSourceFileOf(file_in, engine_ok) ==
    /\ mgr = "ready"
    /\ Apply("encrypt_source_file", None, TRUE,
             encrypt_source_file(Now, file_in, engine_ok))
    /\ UNCHANGED mgr

EncryptSourceFile ==
    \E file_in \in FileContents, engine_ok \in BOOLEAN :
        EncryptSourceFileOf(file_in, engine_ok)

EncryptJournalistReplyUnder(id, reply_in, engine_ok, oob) ==
    /\ mgr = "ready"
    /\ Apply("encrypt_journalist_reply", id, TRUE,
             encrypt_journalist_reply(Now, id, reply_in, TRUE, engine_ok,
                                      oob))
    /\ UNCHANGED mgr

EncryptJournalistReplyOf(id, reply_in, engine_ok) ==
    EncryptJournalistReplyUnder(id, reply_in, engine_ok, None)

EncryptJournalistReply(id) ==
    \E reply_in \in Plaintexts, engine_ok \in BOOLEAN :
        EncryptJournalistReplyOf(id, reply_in, engine_ok)

\* The ciphertexts a source is handed: the message the last call wrote, a
\* message somebody else encrypted to a key of the keyring whose content is
\* not UTF-8, and bytes that are no message.
DecryptInputs ==
    {last.out, CorruptCiphertext}
        \cup { Ciphertext(<<f>>, <<255>>) : f \in KeyringFingerprints(gpg_keyring) }

DecryptJournalistReplyOf(id, ciphertext_in, engine_ok, agent_on) ==
    /\ mgr = "ready"
    /\ Apply("decrypt_journalist_reply", id, TRUE,
             decrypt_journalist_reply(Now, id, ciphertext_in,
                                      engine_ok, agent_on))
    /\ UNCHANGED mgr

DecryptJournalistReply(id) ==
    \E ciphertext_in \in DecryptInputs, engine_ok \in BOOLEAN,
       agent_on \in BOOLEAN :
        DecryptJournalistReplyOf(id, ciphertext_in, engine_ok, agent_on)

\* A key pair is deleted from the keyring by something other than this
\* component; Redis is not told.
OutOfBandDelete ==
    /\ \E oob \in KeyringFingerprints(gpg_keyring) :
          gpg_keyring' = out_of_band_delete(Now, oob).keyring
    /\ UNCHANGED <<gpg_agent, redis_fingerprints, redis_keys, mgr, next_key,
                   last>>
    /\ UNCHANGED thread_vars

\* The same deletion while a call runs: the calls that look a fingerprint
\* up and then ask the engine hold no lock in between.
GetSourcePublicKeyRaced(id) ==
    \E oob \in KeyringFingerprints(gpg_keyring) :
        GetSourcePublicKeyOf(id, oob)

EncryptJournalistReplyRaced(id) ==
    \E reply_in \in Plaintexts, engine_ok \in BOOLEAN,
       oob \in KeyringFingerprints(gpg_keyring) :
        EncryptJournalistReplyUnder(id, reply_in, engine_ok, oob)

DeleteRaced(id) ==
    \E oob \in KeyringFingerprints(gpg_keyring) : DeleteOf(id, oob)

\* gpg-agent drops an entry of its cache: the entry has expired.
AgentCacheExpires ==
    /\ \E f \in DOMAIN gpg_agent.cache :
          gpg_agent' =
              [cache |-> [g \in DOMAIN gpg_agent.cache \ {f} |->
                            gpg_agent.cache[g]],
               last |-> IF gpg_agent.last = f THEN None ELSE gpg_agent.last]
    /\ UNCHANGED <<gpg_keyring, redis_fingerprints, redis_keys, mgr, next_key,
                   last>>
    /\ UNCHANGED thread_vars

Next ==
    \/ Construct
    \/ \E id \in Identities : Generate(id)
    \/ \E id \in Identities : Delete(id)
    \/ \E id \in Identities : GetSourceKeyFingerprint(id)
    \/ \E id \in Identities : GetSourcePublicKey(id)
    \/ GetJournalistPublicKey
    \/ EncryptSourceMessage
    \/ EncryptSourceFile
    \/ \E id \in Identities : EncryptJournalistReply(id)

Spec == Init /\ [][Next]_vars

\* The same program in its environment: processes restart and key pairs
\* are deleted out of band.
NextEnv ==
    \/ Next
    \/ Restart
    \/ OutOfBandDelete
    \/ \E id \in Identities : GetSourcePublicKeyRaced(id)
    \/ \E id \in Identities : EncryptJournalistReplyRaced(id)
    \/ \E id \in Identities : DeleteRaced(id)

SpecEnv == Init /\ [][NextEnv]_vars

\* The messages of a site: sources with a key pair write to the
\* journalists, the journalists reply and the sources read their replies.
NextReply ==
    \/ Construct
    \/ \E id \in Identities : Generate(id)
    \/ EncryptSourceMessage
    \/ EncryptSourceFile
    \/ \E id \in Identities : EncryptJournalistReply(id)
    \/ \E id \in Identities : DecryptJournalistReply(id)
    \/ AgentCacheExpires

SpecReply == Init /\ [][NextReply]_vars

\* Redis may be unreachable when a key pair is generated.
NextRedisDown ==
    \/ Next
    \/ \E id \in Identities : GenerateRedisDown(id)

SpecRedisDown == Init /\ [][NextRedisDown]_vars

\* ------------------------------------------------ _encrypt on its own
\* The stores of a site once its manager is constructed (the journalist
\* key check of __init__ has cached the journalist public key), with no
\* source yet and with the key pair of one source.
EncryptStores ==
    LET site == init(Stores(<<JournalistKey>>, EmptyHash, EmptyHash, 1,
                            NoAgent)).st
    IN  {site, generate_source_key_pair(site, <<"e">>, "ok", TRUE).st}

\* A fingerprint no key of the keyring has.
UnknownFingerprint == <<"F", "0">>

\* The fingerprints callers name, as GnuPG prints them: with spaces.
SpacedFingerprints ==
    UNION { SpacedForms(f, MaxSpaces) :
              f \in KeyringFingerprints(gpg_keyring) \cup {UnknownFingerprint} }

\* The journalist fingerprint as configured: compact, or as GnuPG prints it.
JournalistForms == { JournalistFingerprint, <<"J", " ", "K">> }

\* One recipient, or a recipient and the journalist.
RecipientLists ==
    { <<s>> : s \in SpacedFingerprints }
        \cup { <<s, j>> : s \in SpacedFingerprints, j \in JournalistForms }


InitEncrypt ==
    /\ \E st \in EncryptStores :
          /\ gpg_keyring = st.keyring
          /\ redis_fingerprints = st.fingerprints
          /\ redis_keys = st.keys
          /\ next_key = st.next_key
          /\ gpg_agent = st.agent
    /\ mgr = "ready"
    /\ last = NoCall
    /\ threads = [t \in Threads |-> Idle("none", 0)]
    /\ default_encryption_mgr = 0
    /\ constructed = 0

EncryptOf(using_keys_with_fingerprints, plaintext_in, engine_ok) ==
    /\ mgr = "ready"
    /\ LET r == encrypt(Now, using_keys_with_fingerprints, plaintext_in, engine_ok)
       IN  /\ gpg_keyring' = r.st.keyring
           /\ redis_fingerprints' = r.st.fingerprints
           /\ redis_keys' = r.st.keys
           /\ next_key' = r.st.next_key
           /\ gpg_agent' = r.st.agent
           /\ last' = [Last("_encrypt", None, TRUE, r)
                          EXCEPT !.fprs = using_keys_with_fingerprints]
    /\ UNCHANGED <<mgr, thread_vars>>

Encrypt ==
    \E using_keys_with_fingerprints \in RecipientLists,
       plaintext_in \in FileContents, engine_ok \in BOOLEAN :
        EncryptOf(using_keys_with_fingerprints, plaintext_in, engine_ok)

NextEncrypt == Encrypt

SpecEncrypt == InitEncrypt /\ [][NextEncrypt]_vars

\* ------------------------------------------------ get_default, by thread
\* get_default is entered: no lock is taken.
GetDefaultCall(t) ==
    /\ threads[t].pc = "idle"
    /\ threads' = [threads EXCEPT ![t].pc = "read_default",
                                  ![t].op = "get_default"]
    /\ UNCHANGED <<gpg_keyring, gpg_agent, redis_fingerprints, redis_keys, mgr,
                   next_key, last, default_encryption_mgr, constructed>>

\* if _default_encryption_mgr is None
GetDefaultTest(t) ==
    /\ threads[t].pc = "read_default"
    /\ threads' = [threads EXCEPT ![t].pc =
                      IF default_encryption_mgr = 0
                      THEN "construct" ELSE "return_default"]
    /\ UNCHANGED <<gpg_keyring, gpg_agent, redis_fingerprints, redis_keys, mgr,
                   next_key, last, default_encryption_mgr, constructed>>

\* cls(gpg_key_dir=..., journalist_key_fingerprint=...) enters __init__: the
\* fields are set and the three GnuPG handles are made; the journalist key
\* check is next, in the steps of _get_public_key below, and other threads
\* run between them.
GetDefaultConstruct(t) ==
    /\ threads[t].pc = "construct"
    /\ threads' = [threads EXCEPT ![t].pc = "hget_key",
                                  ![t].fpr = JournalistFingerprint]
    /\ UNCHANGED <<gpg_keyring, gpg_agent, redis_fingerprints, redis_keys, mgr,
                   next_key, last, default_encryption_mgr, constructed>>

\* __init__ returns: cls(...) has constructed one more manager.
GetDefaultConstructed(t) ==
    /\ threads[t].pc = "init_done"
    /\ constructed' = constructed + 1
    /\ threads' = [threads EXCEPT ![t].pc = "store_default",
                                  ![t].val = constructed + 1]
    /\ UNCHANGED <<gpg_keyring, gpg_agent, redis_fingerprints, redis_keys, mgr,
                   next_key, last, default_encryption_mgr>>

\* _default_encryption_mgr = <the manager constructed>
GetDefaultStore(t) ==
    /\ threads[t].pc = "store_default"
    /\ default_encryption_mgr' = threads[t].val
    /\ threads' = [threads EXCEPT ![t].pc = "return_default"]
    /\ UNCHANGED <<gpg_keyring, gpg_agent, redis_fingerprints, redis_keys, mgr,
                   next_key, last, constructed>>

\* return _default_encryption_mgr
GetDefaultReturn(t) ==
    /\ threads[t].pc = "return_default"
    /\ threads' = [threads EXCEPT
                      ![t] = Idle("get_default", default_encryption_mgr)]
    /\ UNCHANGED <<gpg_keyring, gpg_agent, redis_fingerprints, redis_keys, mgr,
                   next_key, last, default_encryption_mgr, constructed>>


\* ------------------------------------- key operations, step by step
\* The calls of concurrent threads interleave between any two accesses to
\* Redis and GnuPG; every access is atomic and succeeds.  The threads work
\* on one identity.
ConcIdentity == <<"e">>

ConcOps ==
    {"generate_source_key_pair", "delete_source_key_pair",
     "get_source_key_fingerprint", "get_source_public_key"}

Untouched(touched) ==
    /\ "keyring" \in touched \/ UNCHANGED <<gpg_keyring, next_key>>
    /\ "fingerprints" \in touched \/ UNCHANGED redis_fingerprints
    /\ "keys" \in touched \/ UNCHANGED redis_keys
    /\ UNCHANGED <<gpg_agent, mgr, last, default_encryption_mgr, constructed>>

\* The call ends: it returns or raises.
Done(t) == threads' = [threads EXCEPT ![t] = Idle(threads[t].op, threads[t].ret)]

\* _get_public_key returns the key: the call ends, or __init__, which
\* called it for the journalist key, goes on to its end.
PublicKeyReturned(t) ==
    IF threads[t].op = "get_default"
    THEN threads' = [threads EXCEPT ![t].pc = "init_done"]
    ELSE Done(t)

\* A thread enters one of the operations.
CallOp(t, op) ==
    /\ mgr = "ready"
    /\ threads[t].pc = "idle"
    /\ op = "generate_source_key_pair" => next_key <= MaxKeys
    /\ threads' = [threads EXCEPT
                      ![t].op = op,
                      ![t].id = ConcIdentity,
                      ![t].pc = IF op = "generate_source_key_pair"
                                THEN "gen_key" ELSE "hget_fingerprint"]
    /\ Untouched({})

\* generate_source_key_pair: new_key = self._gpg.gen_key(gen_key_input)
GenKeyStep(t) ==
    /\ threads[t].pc = "gen_key"
    /\ next_key <= MaxKeys
    /\ LET r == generate_source_key_pair(Now, threads[t].id, "ok", FALSE)
       IN  /\ gpg_keyring' = r.st.keyring
           /\ next_key' = r.st.next_key
           /\ threads' = [threads EXCEPT ![t].pc = "hset_fingerprint",
                                         ![t].fpr = NewFingerprint(next_key)]
    /\ Untouched({"keyring"})

\* get_source_key_fingerprint: self._redis.hget(REDIS_FINGERPRINT_HASH, id)
\* and the test of its result.
HgetFingerprintStep(t) ==
    /\ threads[t].pc = "hget_fingerprint"
    /\ LET cached == HGet(redis_fingerprints, threads[t].id)
       IN  threads' = [threads EXCEPT
                         ![t].fpr = cached,
                         ![t].pc = IF Truthy(cached) THEN "found"
                                   ELSE "list_keys"]
    /\ Untouched({})

\* _get_source_key_details: the scan of self._gpg.list_keys()
ListKeysStep(t) ==
    /\ threads[t].pc = "list_keys"
    /\ LET i == get_source_key_details(gpg_keyring, threads[t].id)
       IN  IF i = 0 THEN Done(t)
           ELSE threads' = [threads EXCEPT
                              ![t].fpr = gpg_keyring[i].fingerprint,
                              ![t].pc = "hset_fingerprint"]
    /\ Untouched({})

\* _save_key_fingerprint_to_redis, from get_source_key_fingerprint and from
\* generate_source_key_pair (which then returns).
HsetFingerprintStep(t) ==
    /\ threads[t].pc = "hset_fingerprint"
    /\ redis_fingerprints' =
          save_key_fingerprint_to_redis(redis_fingerprints, threads[t].id,
                                        threads[t].fpr)
    /\ IF threads[t].op = "generate_source_key_pair" THEN Done(t)
       ELSE threads' = [threads EXCEPT ![t].pc = "found"]
    /\ Untouched({"fingerprints"})

\* get_source_key_fingerprint returns to its caller.
FoundStep(t) ==
    /\ threads[t].pc = "found"
    /\ CASE threads[t].op = "delete_source_key_pair" ->
               threads' = [threads EXCEPT ![t].pc = "delete_keys"]
         [] threads[t].op = "get_source_public_key" ->
               threads' = [threads EXCEPT ![t].pc = "hget_key"]
         [] OTHER -> Done(t)
    /\ Untouched({})

\* delete_source_key_pair: self._gpg_for_key_deletion.delete_keys(...)
DeleteKeysStep(t) ==
    /\ threads[t].pc = "delete_keys"
    /\ gpg_keyring' = delete_keys(gpg_keyring, threads[t].fpr, "ok")
    /\ next_key' = next_key
    /\ threads' = [threads EXCEPT ![t].pc = "hdel_key"]
    /\ Untouched({"keyring"})

\* delete_source_key_pair: self._redis.hdel(REDIS_KEY_HASH, fingerprint)
HdelKeyStep(t) ==
    /\ threads[t].pc = "hdel_key"
    /\ redis_keys' = HDel(redis_keys, threads[t].fpr)
    /\ threads' = [threads EXCEPT ![t].pc = "hdel_fingerprint"]
    /\ Untouched({"keys"})

\* delete_source_key_pair: self._redis.hdel(REDIS_FINGERPRINT_HASH, id)
HdelFingerprintStep(t) ==
    /\ threads[t].pc = "hdel_fingerprint"
    /\ redis_fingerprints' = HDel(redis_fingerprints, threads[t].id)
    /\ Done(t)
    /\ Untouched({"fingerprints"})

\* _get_public_key: self._redis.hget(REDIS_KEY_HASH, fingerprint)
HgetKeyStep(t) ==
    /\ threads[t].pc = "hget_key"
    /\ IF Truthy(HGet(redis_keys, threads[t].fpr)) THEN PublicKeyReturned(t)
       ELSE threads' = [threads EXCEPT ![t].pc = "export_keys"]
    /\ Untouched({})

\* _get_public_key: self._gpg.export_keys(fingerprint)
ExportKeysStep(t) ==
    /\ threads[t].pc = "export_keys"
    /\ LET public_key == export_keys(gpg_keyring, threads[t].fpr)
       IN  IF ~Truthy(public_key) THEN Done(t)
           ELSE threads' = [threads EXCEPT ![t].val = public_key,
                                           ![t].pc = "hset_key"]
    /\ Untouched({})

\* _get_public_key: self._redis.hset(REDIS_KEY_HASH, fingerprint, public_key)
HsetKeyStep(t) ==
    /\ threads[t].pc = "hset_key"
    /\ redis_keys' = HSet(redis_keys, threads[t].fpr, threads[t].val)
    /\ PublicKeyReturned(t)
    /\ Untouched({"keys"})

NextConc ==
    \/ Construct
    \/ \E t \in Threads :
          \/ \E op \in ConcOps : CallOp(t, op)
          \/ GenKeyStep(t)
          \/ HgetFingerprintStep(t)
          \/ ListKeysStep(t)
          \/ HsetFingerprintStep(t)
          \/ FoundStep(t)
          \/ DeleteKeysStep(t)
          \/ HdelKeyStep(t)
          \/ HdelFingerprintStep(t)
          \/ HgetKeyStep(t)
          \/ ExportKeysStep(t)
          \/ HsetKeyStep(t)

SpecConc == Init /\ [][NextConc]_vars

\* get_default by thread, with the steps of the journalist key check.
NextDefault ==
    \E t \in Threads :
        \/ GetDefaultCall(t)
        \/ GetDefaultTest(t)
        \/ GetDefaultConstruct(t)
        \/ HgetKeyStep(t)
        \/ ExportKeysStep(t)
        \/ HsetKeyStep(t)
        \/ GetDefaultConstructed(t)
        \/ GetDefaultStore(t)
        \/ GetDefaultReturn(t)

SpecDefault == Init /\ [][NextDefault]_vars

\* ================================================================ claims
\* Helpers of the statements below.
EngineCalls(fn) == { i \in 1..Len(last.calls) : last.calls[i].fn = fn }

\* Number of key pairs the engine holds for an identity: the keys whose
\* user id is "Source Key <id>".
KeyPairsOf(id) ==
    Cardinality({ i \in 1..Len(gpg_keyring) :
        \E u \in 1..Len(gpg_keyring[i].uids) :
            gpg_keyring[i].uids[u] =
                <<"S", "o", "u", "r", "c", "e", " ", "K", "e", "y", " ", "<">>
                    \o id \o <<">">> })

\* The fingerprints of the key pairs generated for an identity.
KeyFingerprintsOf(id) ==
    { gpg_keyring[i].fingerprint : i \in
        { k \in 1..Len(gpg_keyring) :
            \E u \in 1..Len(gpg_keyring[k].uids) :
                gpg_keyring[k].uids[u] =
                    <<"S", "o", "u", "r", "c", "e", " ", "K", "e", "y", " ", "<">>
                        \o id \o <<">">> } }

OneKeyPairPerIdentity == \A id \in Identities : KeyPairsOf(id) <= 1

GeneratedFingerprints == { NewFingerprint(n) : n \in 1..(next_key - 1) }

\* The identity->fingerprint entry of id names a key pair that was
\* generated and is no longer in the engine.
Stale(id) ==
    /\ id \in DOMAIN redis_fingerprints
    /\ redis_fingerprints[id] \in GeneratedFingerprints
    /\ redis_fingerprints[id] \notin KeyringFingerprints(gpg_keyring)

\* C1 (as claimed): once delete_source_key_pair(id) has returned,
\* get_source_key_fingerprint(id) and get_source_public_key(id) both fail
\* with GpgKeyNotFoundError.
C1_LookupsFailAfterDelete ==
    (last.op = "delete_source_key_pair" /\ last.outcome = "ok") =>
        /\ get_source_key_fingerprint(Now, last.id, TRUE).outcome
              = "GpgKeyNotFoundError"
        /\ get_source_public_key(Now, last.id, TRUE, None).outcome
              = "GpgKeyNotFoundError"

\* C2 (as claimed): without out-of-band changes, every
\* identity->fingerprint cache entry names a fingerprint whose key pair is
\* in the engine.
C2_CachedFingerprintsExist ==
    \A id \in DOMAIN redis_fingerprints :
        redis_fingerprints[id] \in KeyringFingerprints(gpg_keyring)

\* C3: a get_source_key_fingerprint(id) that follows a successful key
\* generation for id returns the fingerprint the engine generated and makes
\* no engine call, whether or not the engine scan works.
C3_LookupAfterGenerateUsesCache ==
    [][ \A id \in Identities :
          (/\ last.generated # None
           /\ last.outcome = "ok"
           /\ last.id = id
           /\ GetSourceKeyFingerprint(id))
          => /\ last'.outcome = "ok"
             /\ last'.ret = last.generated
             /\ last'.calls = <<>> ]_vars

C3_Witness ==
    /\ last.op = "get_source_key_fingerprint"
    /\ last.follows = "generation"
    /\ last.scan_broken
    /\ last.outcome = "ok"
    /\ last.ret = NewFingerprint(next_key - 1)
    /\ last.calls = <<>>

\* C4 (as claimed): after any sequence of generate and delete calls the
\* engine holds at most one key pair per identity.
C4_AtMostOneKeyPairPerIdentity == OneKeyPairPerIdentity

\* C4 (amended): the engine holds at most one key pair per identity as long
\* as generate_source_key_pair is not called for an identity that already
\* has one; no other step adds a key pair.
C4_OneKeyPairUnlessRegenerated ==
    [][ (/\ OneKeyPairPerIdentity
         /\ ~(next_key' > next_key /\ KeyPairsOf(last'.id) >= 1))
        => OneKeyPairPerIdentity' ]_vars

C4_Witness ==
    /\ last.op = "generate_source_key_pair"
    /\ last.generated # None
    /\ \A id \in Identities : KeyPairsOf(id) = 1

\* C5 (as claimed): when the engine deletes nothing during
\* delete_source_key_pair(id), the identity->fingerprint entry of id and
\* the fingerprint->public-key entry of its fingerprint stay as they were.
C5_FailedEngineDeleteKeepsCache ==
    [][ \A id \in Identities :
          (/\ Delete(id)
           /\ EngineCalls("delete_keys")' # {}
           /\ gpg_keyring' = gpg_keyring)
          => /\ id \in DOMAIN redis_fingerprints =>
                  HGet(redis_fingerprints', id) = redis_fingerprints[id]
             /\ \A f \in DOMAIN redis_keys :
                  HGet(redis_keys', f) = redis_keys[f] ]_vars

\* C6 (as claimed): when the engine generates no key pair,
\* generate_source_key_pair raises and writes no identity->fingerprint
\* entry.
C6_FailedGenerationRaisesAndWritesNothing ==
    [][ \A id \in Identities :
          (Generate(id) /\ next_key' = next_key)
          => /\ last'.outcome # "ok"
             /\ redis_fingerprints' = redis_fingerprints ]_vars

\* C7 (as claimed): constructing the manager while the keyring holds no key
\* for the journalist fingerprint fails with EnvironmentError, whatever the
\* cache holds.
C7_ConstructionFailsWithoutJournalistKey ==
    [][ (Construct
         /\ JournalistFingerprint \notin KeyringFingerprints(gpg_keyring))
        => (last'.outcome = "EnvironmentError" /\ mgr' = "failed") ]_vars

\* C8 (as claimed): with a stale identity->fingerprint entry,
\* get_source_public_key, encrypt_journalist_reply and
\* delete_source_key_pair all fail with an engine-level error.
C8_StaleEntryGivesEngineError ==
    [][ \A id \in Identities :
          (Stale(id) /\ (\/ GetSourcePublicKey(id)
                         \/ EncryptJournalistReply(id)
                         \/ Delete(id)))
          => last'.outcome \in {"GpgEncryptError", "EngineFault"} ]_vars

\* C9: a get_source_public_key(id) that directly follows a
\* get_source_public_key(id) that returned returns the same public key and
\* makes no engine call.
C9_SecondPublicKeyLookupIsCached ==
    [][ \A id \in Identities :
          (/\ last.op = "get_source_public_key"
           /\ last.id = id
           /\ last.outcome = "ok"
           /\ GetSourcePublicKey(id))
          => /\ last'.outcome = "ok"
             /\ last'.ret = last.ret
             /\ last'.calls = <<>> ]_vars

C9_Witness ==
    /\ last.op = "get_source_public_key"
    /\ last.follows = "same_call"
    /\ last.outcome = "ok"
    /\ last.calls = <<>>
    /\ last.ret = export_keys(gpg_keyring, redis_fingerprints[last.id])

\* C10 (as claimed): the recipient list an operation hands to the engine
\* is [fingerprint of a key pair of the source, journalist fingerprint] for
\* encrypt_journalist_reply and [journalist fingerprint] for
\* encrypt_source_message and encrypt_source_file: 1 or 2 fingerprints,
\* the journalist's among them, in one engine call.
C10_RecipientLists ==
    /\ \A i \in EngineCalls("encrypt") :
         LET recipients == last.calls[i].args
         IN  /\ Len(recipients) \in {1, 2}
             /\ \E j \in 1..Len(recipients) :
                   recipients[j] = JournalistFingerprint
             /\ last.op = "encrypt_journalist_reply" =>
                   /\ Len(recipients) = 2
                   /\ recipients[1] \in KeyFingerprintsOf(last.id)
                   /\ recipients[2] = JournalistFingerprint
             /\ last.op \in {"encrypt_source_message", "encrypt_source_file"}
                   => recipients = << JournalistFingerprint >>
    /\ (/\ last.op \in {"encrypt_journalist_reply", "encrypt_source_message",
                        "encrypt_source_file"}
        /\ last.outcome \in {"ok", "GpgEncryptError"})
       => Cardinality(EngineCalls("encrypt")) = 1


\* C11 (as claimed): for an identity with a generated key pair and a text P,
\* decrypt_journalist_reply with that identity's passphrase, applied to the
\* ciphertext encrypt_journalist_reply(identity, P) wrote, returns P,
\* whatever gpg-agent holds in its cache.
C11_ReplyRoundTrip ==
    [][ \A id \in Identities, P \in Plaintexts, agent_on \in BOOLEAN :
          (/\ EncryptJournalistReplyOf(id, P, TRUE)
           /\ last'.outcome = "ok"
           /\ KeyPairsOf(id) >= 1)
          => LET d == decrypt_journalist_reply(Now', id, last'.out, TRUE,
                                               agent_on)
             IN  d.outcome = "ok" /\ d.ret = P ]_vars


\* C12 (as claimed): when the engine generates the key pair and the cache
\* write that follows fails, the key pair stays in the engine and the cache
\* is left as it was; the next get_source_key_fingerprint(id), which misses
\* the cache, finds that key pair (the only one of id) through the engine
\* scan, returns its fingerprint and writes it to the cache.
C12_OrphanedKeyIsRecovered ==
    [][ \A id \in Identities :
          /\ (GenerateRedisDown(id) /\ last'.generated # None)
             => /\ last'.generated \in KeyringFingerprints(gpg_keyring')
                /\ redis_fingerprints' = redis_fingerprints
          /\ (/\ last.op = "generate_source_key_pair"
              /\ last.id = id
              /\ last.outcome = "RedisError"
              /\ last.generated # None
              /\ id \notin DOMAIN redis_fingerprints
              /\ KeyPairsOf(id) = 1
              /\ GetSourceKeyFingerprintOf(id, TRUE))
             => /\ last'.outcome = "ok"
                /\ last'.ret = last.generated
                /\ EngineCalls("list_keys")' # {}
                /\ HGet(redis_fingerprints', id) = last.generated ]_vars


\* C13 (as claimed): delete_source_key_pair(id) fails with
\* GpgKeyNotFoundError whenever the engine holds no key pair of id, and then
\* changes neither the keyring nor the cache.
C13_DeleteOfAbsentKeyFails ==
    [][ \A id \in Identities :
          (Delete(id) /\ KeyPairsOf(id) = 0)
          => /\ last'.outcome = "GpgKeyNotFoundError"
             /\ gpg_keyring' = gpg_keyring
             /\ redis_fingerprints' = redis_fingerprints
             /\ redis_keys' = redis_keys ]_vars


\* C14: for every fingerprint f and every form s of f with spaces added,
\* _encrypt called with s hands the engine f itself, ends as the call with f
\* ends and writes the same message; with no space added (s = f) the engine
\* is handed f unchanged.
C14_SpacedFingerprintsAreSanitized ==
    [][ \A f \in KeyringFingerprints(gpg_keyring) \cup {UnknownFingerprint} :
          \A s \in SpacedForms(f, MaxSpaces) :
            /\ (last'.op = "_encrypt" /\ last'.fprs = <<s>>)
               => \A plaintext_in \in FileContents, engine_ok \in BOOLEAN :
                     EncryptOf(<<s>>, plaintext_in, engine_ok)
                     => LET compact == encrypt(Now, <<f>>, plaintext_in, engine_ok)
                        IN  /\ last'.calls = <<Call("encrypt", <<f>>)>>
                            /\ last'.outcome = compact.outcome
                            /\ last'.ret = compact.ret
                            /\ last'.out = compact.out
            /\ \A j \in JournalistForms :
                 (last'.op = "_encrypt" /\ last'.fprs = <<s, j>>)
                 => \A plaintext_in \in FileContents, engine_ok \in BOOLEAN :
                       EncryptOf(<<s, j>>, plaintext_in, engine_ok)
                       => LET compact ==
                                  encrypt(Now, <<f, JournalistFingerprint>>,
                                          plaintext_in, engine_ok)
                          IN  /\ last'.calls =
                                   <<Call("encrypt",
                                          <<f, JournalistFingerprint>>)>>
                              /\ last'.outcome = compact.outcome
                              /\ last'.ret = compact.ret
                              /\ last'.out = compact.out ]_vars

C14_Witness ==
    /\ last.op = "_encrypt"
    /\ last.fprs = << <<"F", " ", " ", "1">>, <<"J", " ", "K">> >>
    /\ last.calls = <<Call("encrypt", << <<"F", "1">>, <<"J", "K">> >>)>>
    /\ last.outcome = "ok"
    /\ last.out.recipients = << <<"F", "1">>, <<"J", "K">> >>


\* C15: the read path of get_source_key_fingerprint and _get_public_key.
\* On a cache hit the cached value is returned and the engine is not called.
\* On a miss the engine is queried once; when it has a match the value is
\* returned and the cache entry equals it, and when it has none the call
\* fails with GpgKeyNotFoundError and both cache tables stay as they were.
C15_LookupReadPath ==
    [][ /\ \A id \in Identities :
             (/\ last'.op = "get_source_key_fingerprint"
              /\ last'.id = id
              /\ GetSourceKeyFingerprintOf(id, TRUE))
             => LET cached == HGet(redis_fingerprints, id)
                    match  == \E i \in 1..Len(gpg_keyring) :
                                  KeyMatches(gpg_keyring[i], id)
                IN  /\ Truthy(cached)
                       => /\ last'.outcome = "ok"
                          /\ last'.ret = cached
                          /\ last'.calls = <<>>
                    /\ (~Truthy(cached) /\ match)
                       => /\ last'.outcome = "ok"
                          /\ last'.calls = <<Call("list_keys", <<>>)>>
                          /\ last'.ret \in KeyringFingerprints(gpg_keyring)
                          /\ HGet(redis_fingerprints', id) = last'.ret
                    /\ (~Truthy(cached) /\ ~match)
                       => /\ last'.outcome = "GpgKeyNotFoundError"
                          /\ last'.calls = <<Call("list_keys", <<>>)>>
                          /\ redis_fingerprints' = redis_fingerprints
                          /\ redis_keys' = redis_keys
        /\ (last'.op = "get_journalist_public_key" /\ GetJournalistPublicKey)
             => LET fpr    == JournalistFingerprint
                    cached == HGet(redis_keys, fpr)
                    held   == fpr \in KeyringFingerprints(gpg_keyring)
                IN  /\ Truthy(cached)
                       => /\ last'.outcome = "ok"
                          /\ last'.ret = cached
                          /\ last'.calls = <<>>
                    /\ (~Truthy(cached) /\ held)
                       => /\ last'.outcome = "ok"
                          /\ last'.calls = <<Call("export_keys", <<fpr>>)>>
                          /\ Truthy(last'.ret)
                          /\ HGet(redis_keys', fpr) = last'.ret
                    /\ (~Truthy(cached) /\ ~held)
                       => /\ last'.outcome = "GpgKeyNotFoundError"
                          /\ last'.calls = <<Call("export_keys", <<fpr>>)>>
                          /\ redis_fingerprints' = redis_fingerprints
                          /\ redis_keys' = redis_keys
        /\ \A id \in Identities :
             (/\ last'.op = "get_source_public_key"
              /\ last'.id = id
              /\ Truthy(HGet(redis_fingerprints, id))
              /\ GetSourcePublicKey(id))
             => LET fpr    == HGet(redis_fingerprints, id)
                    cached == HGet(redis_keys, fpr)
                    held   == fpr \in KeyringFingerprints(gpg_keyring)
                IN  /\ Truthy(cached)
                       => /\ last'.outcome = "ok"
                          /\ last'.ret = cached
                          /\ last'.calls = <<>>
                    /\ (~Truthy(cached) /\ held)
                       => /\ last'.outcome = "ok"
                          /\ last'.calls = <<Call("export_keys", <<fpr>>)>>
                          /\ Truthy(last'.ret)
                          /\ HGet(redis_keys', fpr) = last'.ret
                    /\ (~Truthy(cached) /\ ~held)
                       => /\ last'.outcome = "GpgKeyNotFoundError"
                          /\ last'.calls = <<Call("export_keys", <<fpr>>)>>
                          /\ redis_fingerprints' = redis_fingerprints
                          /\ redis_keys' = redis_keys ]_vars

\* A lookup that missed the cache, found a key by the scan and wrote its
\* fingerprint through.
C15_Witness ==
    /\ last.op = "get_source_key_fingerprint"
    /\ ~last.scan_broken
    /\ last.outcome = "ok"
    /\ last.calls = <<Call("list_keys", <<>>)>>
    /\ last.ret \in KeyringFingerprints(gpg_keyring)
    /\ HGet(redis_fingerprints, last.id) = last.ret


\* C16: when the engine reports a non-ok result, the encrypting operations
\* raise GpgEncryptError and decrypt_journalist_reply raises
\* GpgDecryptError, with the engine's stderr text as argument, after exactly
\* one engine invocation of the failing operation; nothing is written to
\* the output path and no plaintext is returned.
C16_EngineFailureSurfacesAtOnce ==
    [][ /\ last'.op = "encrypt_source_message"
           => \A P \in Plaintexts, engine_ok \in BOOLEAN :
                LET out == gpg_encrypt(gpg_keyring, <<JournalistFingerprint>>,
                                       Utf8Encode(P), engine_ok)
                IN  (EncryptSourceMessageOf(P, engine_ok) /\ ~out.ok)
                    => /\ last'.outcome = "GpgEncryptError"
                       /\ last'.ret = out.stderr
                       /\ Cardinality(EngineCalls("encrypt")') = 1
                       /\ last'.out = NoCiphertext
        /\ last'.op = "encrypt_source_file"
           => \A F \in FileContents, engine_ok \in BOOLEAN :
                LET out == gpg_encrypt(gpg_keyring, <<JournalistFingerprint>>,
                                       F, engine_ok)
                IN  (EncryptSourceFileOf(F, engine_ok) /\ ~out.ok)
                    => /\ last'.outcome = "GpgEncryptError"
                       /\ last'.ret = out.stderr
                       /\ Cardinality(EngineCalls("encrypt")') = 1
                       /\ last'.out = NoCiphertext
        /\ (last'.op = "encrypt_journalist_reply"
                /\ EngineCalls("encrypt")' # {})
           => \A P \in Plaintexts, engine_ok \in BOOLEAN :
                LET c   == last'.calls[CHOOSE i \in EngineCalls("encrypt")' : TRUE]
                    out == gpg_encrypt(gpg_keyring, c.args, Utf8Encode(P),
                                       engine_ok)
                IN  (EncryptJournalistReplyOf(last'.id, P, engine_ok)
                        /\ ~out.ok)
                    => /\ last'.outcome = "GpgEncryptError"
                       /\ last'.ret = out.stderr
                       /\ Cardinality(EngineCalls("encrypt")') = 1
                       /\ last'.out = NoCiphertext
        /\ last'.op = "decrypt_journalist_reply"
           => \A engine_ok \in BOOLEAN, agent_on \in BOOLEAN,
                 ciphertext_in \in DecryptInputs :
                LET out == gpg_decrypt_file(gpg_keyring, gpg_agent,
                                            ciphertext_in, Passphrase(last'.id),
                                            engine_ok, agent_on)
                IN  (DecryptJournalistReplyOf(last'.id, ciphertext_in,
                                              engine_ok, agent_on)
                        /\ ~out.ok)
                    => /\ last'.outcome = "GpgDecryptError"
                       /\ last'.ret = out.stderr
                       /\ last'.ret \notin Plaintexts
                       /\ last'.calls = <<Call("decrypt_file", <<>>)>> ]_vars

\* A message to a key whose secret key the source does not hold.
C16_Witness ==
    /\ last.op = "decrypt_journalist_reply"
    /\ last.outcome = "GpgDecryptError"
    /\ last.ret = StderrNoSecretKey
    /\ Cardinality(EngineCalls("decrypt_file")) = 1


\* C17 (as claimed): get_default constructs at most one manager per process
\* and all calls return the same one, concurrent first calls included; when
\* construction fails (no journalist key) no manager is memoized.
C17_DefaultConstructedOnce ==
    /\ constructed <= 1
    /\ \A t, u \in Threads :
          (threads[t].ret # 0 /\ threads[u].ret # 0)
          => threads[t].ret = threads[u].ret
    /\ JournalistFingerprint \notin KeyringFingerprints(gpg_keyring)
          => default_encryption_mgr = 0


\* All calls of all threads have completed.
Quiescent == \A t \in Threads : threads[t].pc = "idle"

\* C18 (as claimed): when generate, delete and lookup calls on one identity
\* interleave step by step, then once all calls have completed every
\* identity->fingerprint entry and every fingerprint->public-key entry of
\* the cache refers to a key pair the engine holds.
C18_QuiescentCacheMatchesEngine ==
    Quiescent
    => /\ \A id \in DOMAIN redis_fingerprints :
             redis_fingerprints[id] \in KeyringFingerprints(gpg_keyring)
       /\ \A fpr \in DOMAIN redis_keys :
             fpr \in KeyringFingerprints(gpg_keyring)


\* C19 (as claimed): for identities A # B, get_source_key_fingerprint(A) on
\* a cache miss neither returns nor caches the fingerprint of a key pair
\* generated for B (A may be a substring of B), and
\* delete_source_key_pair(A) deletes no key pair of B.
C19_ScanIsolatesIdentities ==
    [][ \A A \in Identities : \A B \in Identities \ {A} :
          /\ (/\ ~Truthy(HGet(redis_fingerprints, A))
              /\ GetSourceKeyFingerprintOf(A, TRUE)
              /\ last'.outcome = "ok")
             => /\ last'.ret \notin KeyFingerprintsOf(B)
                /\ HGet(redis_fingerprints', A) \notin KeyFingerprintsOf(B)
          /\ Delete(A) => KeyFingerprintsOf(B) \subseteq KeyFingerprintsOf(B)' ]_vars

\* C20 (as claimed): a successful delete_source_key_pair(A) removes only
\* the identity->fingerprint entry of A and the fingerprint->public-key
\* entry of A's fingerprint; the cache entries and key pairs of every other
\* identity, the journalist key and its cached public key stay as they
\* were.
C20_DeleteFrame ==
    [][ \A A \in Identities :
          (Delete(A) /\ last'.outcome = "ok")
          => /\ \A B \in Identities \ {A} :
                  /\ HGet(redis_fingerprints', B) = HGet(redis_fingerprints, B)
                  /\ KeyFingerprintsOf(B)' = KeyFingerprintsOf(B)
                  /\ \A fpr \in KeyFingerprintsOf(B) :
                        HGet(redis_keys', fpr) = HGet(redis_keys, fpr)
             /\ (JournalistFingerprint \in KeyringFingerprints(gpg_keyring))
                  = (JournalistFingerprint \in KeyringFingerprints(gpg_keyring'))
             /\ HGet(redis_keys', JournalistFingerprint)
                  = HGet(redis_keys, JournalistFingerprint) ]_vars

====
